---- MODULE Spec2Model ----
(***************************************************************************)
(* The resumable crawler of src/scraper: ContentFetcher.process_url        *)
(* (controller.py), LinkProcessor.process_href_links (href_parser.py) and  *)
(* the URL helpers of utils.py, as a state machine.                        *)
(*                                                                         *)
(* A raw URL is the record of the components urlparse splits it into:      *)
(*   scheme://host/path[.ext][/][?k=v&...][#frag]                          *)
(* A NormalizedURL is the tuple of components normalize_url hands to       *)
(* urlunparse.  The network (hash probe, HEAD probe, download, browser) is *)
(* the environment: each request nondeterministically succeeds or fails.   *)
(***************************************************************************)
EXTENDS Integers, Sequences, FiniteSets, TLC

\* ---------------------------------------------------------------- bounds
\* Test methods of src/test.py run one after another (setUp ... tearDown).
MaxTests == 2
\* create_and_store_embedding calls over the whole behaviour.
MaxEmbeddings == 2
\* ContentFetcher instances constructed one after another on one storage file.
MaxRuns == 2
\* Requests that fail or raise over the whole behaviour.
MaxFailures == 2

\* ---------------------------------------------------------------- values
\* Python's None, as returned by fetch_and_hash_content / download_file.
None == "None"

Url(s, h, p, e, sl, q, f) ==
    [scheme |-> s, host |-> h, path |-> p, ext |-> e, slash |-> sl, query |-> q, frag |-> f]

College == "nitj.ac.in"
MirrorHost == "mirror.nitj.example"
OtherHost == "other.example"

NoQuery == <<>>
UtmQuery == << <<"utm_source", "x">> >>

\* The raw URLs of the modelled site and of the two foreign hosts it links to.
PageA == Url("http", College, "a", "", FALSE, NoQuery, "")
PageAUtm == Url("http", College, "a", "", FALSE, UtmQuery, "")
PageB == Url("https", College, "b", "", TRUE, NoQuery, "")
DocPdf == Url("http", College, "doc", "pdf", FALSE, NoQuery, "")
DocPdfFrag == Url("http", College, "doc", "pdf", FALSE, NoQuery, "section2")
DocPdfUpper == Url("http", College, "DOC", "pdf", FALSE, NoQuery, "")
DocDocx == Url("http", College, "doc", "docx", FALSE, NoQuery, "")
Logo == Url("http", College, "logo", "png", FALSE, NoQuery, "")
MirrorA == Url("http", MirrorHost, "a", "", FALSE, NoQuery, "")
ExtPdf == Url("http", OtherHost, "ext", "pdf", FALSE, NoQuery, "")
ExtPage == Url("http", OtherHost, "p", "", FALSE, NoQuery, "")

\* The browser's URL before the first navigation.
BlankUrl == Url("data", "", "", "", FALSE, NoQuery, "")

\* A college URL that carries a Google Drive link shape in its path.
DriveLink == Url("http", College, "drive.google.com/file/d/F1/view", "", FALSE, NoQuery, "")

\* The seeds a caller may hand to process_url.
Seeds == {PageA, PageAUtm, PageB, DocPdf, Logo, MirrorA, DriveLink}

\* The anchors (a href) of the page served for a URL, in document order; hrefs
\* are absolute, so urljoin(current_url, href) is the href itself.
Anchors(u) ==
    IF u.host = College /\ u.path = "a" /\ u.ext = ""
    THEN <<PageAUtm, Logo, DocPdf, DocDocx, PageB, MirrorA, ExtPdf>>
    ELSE IF u.host = College /\ u.path = "b" /\ u.ext = ""
    THEN <<DocPdfFrag, DocPdfUpper, ExtPage, PageA>>
    ELSE <<>>

\* ---------------------------------------------------------------- utils.py
\* str.lower() on the tokens URLs are built from.
Lower(t) ==
    CASE t = "DOC" -> "doc"
      [] t = "PDF" -> "pdf"
      [] t = "HTTP" -> "http"
      [] t = "HTTPS" -> "https"
      [] t = "NITJ.AC.IN" -> "nitj.ac.in"
      [] OTHER -> t

\* Lexicographic order of the query tokens, as sorted() compares strings.
TokenOrder == <<"1", "2", "a", "b", "utm_campaign", "utm_medium", "utm_source", "x">>

Rank(t) == CHOOSE i \in 1..Len(TokenOrder) : TokenOrder[i] = t

PairLess(p, q) ==
    \/ Rank(p[1]) < Rank(q[1])
    \/ p[1] = q[1] /\ Rank(p[2]) < Rank(q[2])

RECURSIVE InsertSorted(_, _)
InsertSorted(p, s) ==
    IF s = <<>> THEN <<p>>
    ELSE IF PairLess(p, Head(s)) THEN <<p>> \o s
    ELSE <<Head(s)>> \o InsertSorted(p, Tail(s))

RECURSIVE SortPairs(_)
SortPairs(s) == IF s = <<>> THEN <<>> ELSE InsertSorted(Head(s), SortPairs(Tail(s)))

ignore_params == {"utm_source", "utm_medium", "utm_campaign"}

RECURSIVE FilterParams(_)
FilterParams(q) ==
    IF q = <<>> THEN <<>>
    ELSE IF Head(q)[1] \in ignore_params THEN FilterParams(Tail(q))
    ELSE <<Head(q)>> \o FilterParams(Tail(q))

RECURSIVE LowerPairs(_)
LowerPairs(q) ==
    IF q = <<>> THEN <<>>
    ELSE << <<Lower(Head(q)[1]), Lower(Head(q)[2])>> >> \o LowerPairs(Tail(q))

\* Faulty variant of normalize_url: the tracking parameters are kept.
NormalizeKeepsTracking(u) ==
    [scheme |-> IF Lower(u.scheme) = "https" THEN "http" ELSE Lower(u.scheme),
     host |-> Lower(u.host),
     path |-> Lower(u.path),
     ext |-> Lower(u.ext),
     query |-> SortPairs(LowerPairs(u.query))]

\* normalize_url: the whole URL lowercased, https folded into http, trailing
\* slashes stripped from the path, tracking parameters dropped, the remaining
\* parameters sorted, the fragment dropped.
normalize_url(u) ==
    [scheme |-> IF Lower(u.scheme) = "https" THEN "http" ELSE Lower(u.scheme),
     host |-> Lower(u.host),
     path |-> Lower(u.path),
     ext |-> Lower(u.ext),
     query |-> SortPairs(FilterParams(LowerPairs(u.query)))]

\* The empty string as a normalized URL ("not normalized_url").
EmptyNorm == [scheme |-> "", host |-> "", path |-> "", ext |-> "", query |-> <<>>]

\* str.endswith('.' + e) on the raw URL string: the string ends with the
\* fragment, else the query, else the slash, else the path's extension.
EndsWithExt(u, exts) ==
    u.frag = "" /\ u.query = <<>> /\ ~u.slash /\ u.ext \in exts

\* url.lower().endswith('.pdf')
is_pdf_url(u) == EndsWithExt([u EXCEPT !.ext = Lower(u.ext)], {"pdf"})

\* 'nitj.ac.in' in urlparse(url).netloc (the netloc keeps its case).
is_college_url(u) == u.host \in {College, "www.nitj.ac.in"}

\* "drive.google.com" in url
is_google_drive_url(u) == u.host = "drive.google.com" \/ u.path = "drive.google.com/file/d/F1/view"

\* url.split("file/d/")[1].split("/")[0] when "file/d/" is in the url, else None.
extract_google_drive_file_id(u) ==
    IF u.path = "drive.google.com/file/d/F1/view" THEN "F1" ELSE None

\* URLNameGenerator.get_name_from_url, then .replace('/', '_'): the path
\* without its leading slash and without its extension, case kept.  Every
\* document URL modelled here has a non-empty path.
get_name_from_url(u) == u.path

\* The SHA-256 of the body served for a URL: the mirror serves the same bytes
\* as the college site for the same path; query and fragment do not change it.
PageHash(u) ==
    CASE Lower(u.path) = "a" -> "sha_a"
      [] Lower(u.path) = "b" -> "sha_b"
      [] Lower(u.path) = "doc" /\ Lower(u.ext) = "docx" -> "sha_docx"
      [] Lower(u.path) = "doc" -> "sha_doc"
      [] Lower(u.path) = "logo" -> "sha_logo"
      [] Lower(u.path) = "p" -> "sha_p"
      [] OTHER -> "sha_other"

\* fetch_and_hash_content: the digest on status 200, None on any other status
\* or on a network failure.
fetch_and_hash_content(u, ok) == IF ok THEN PageHash(u) ELSE None

\* ---------------------------------------------------------------- state
VARIABLES
    seen_links,         \* ContentFetcher.__seen_links: NormalizedURL -> fingerprint or None
    relevant_links,     \* ContentFetcher.__relevant_links (the Frontier), in insertion order
    non_college_urls,   \* ContentFetcher.__non_college_urls
    urls_not_fetched,   \* ContentFetcher.__urls_not_fetched
    error_urls,         \* ContentFetcher.__error_urls
    extracted_data,     \* ContentFetcher.__extracted_data: NormalizedURL -> record
    google_drive_urls,  \* ContentFetcher.__google_drive_urls
    downloadables,      \* ContentFetcher.__downloadables: format -> <<filename, url>> list
    storage_file,       \* URLMetaData.pkl: whether it exists, and the pickled dict
    driver,             \* the Selenium session: alive, and its current_url
    pc,                 \* position of the run: idle, loop, wave, links, returned, saved, done
    snapshot,           \* current_links_snapshot of the wave being processed
    idx,                \* position of the for loop in the snapshot
    aidx,               \* position of process_href_links in the page's anchors
    links_data,         \* downloadables_data of the running process_href_links call
    runs,               \* ContentFetcher instances constructed so far
    failures,           \* requests that failed or raised so far
    navigated,          \* history: URLs handed to driver.get
    downloaded,         \* history: URLs whose processing called download_file
    requested,          \* history: Google Drive download URLs handed to download_file
    failed,             \* history: URLs whose probe, fetch or download failed in this run
    probed,             \* history: URLs handed to fetch_and_hash_content
    processed,          \* history: normalized URLs of the candidates processed so far
    dispatched,         \* history: normalized URLs of the snapshot entries dispatched so far
    flushed,            \* history: the storage file as the last completed __save_data left it
    last,               \* history: the step just taken
    disk,               \* vectorDB: the files on disk, each absent or with its content
    instances,          \* vectorDB: the VectorDatabaseModule objects of the running test
    returned_ids,       \* vectorDB history: per object, the IDs its calls returned
    loaded,             \* vectorDB history: the objects that have called a load method
    tests,              \* vectorDB: test methods started so far
    uuids,              \* vectorDB: uuid.uuid4() calls so far
    vlast,              \* vectorDB history: the step just taken
    norm_in,            \* normalize_url: the two raw URLs handed to it
    norm_out            \* normalize_url: whether the calls have returned, and the two results

registries ==
    <<seen_links, non_college_urls, urls_not_fetched, error_urls, extracted_data,
      google_drive_urls, downloadables>>

history ==
    <<navigated, downloaded, requested, failed, probed, processed, dispatched, flushed, last>>

\* The state of src/vectorDB and of the normalize_url calls under test; the
\* crawler leaves both alone.
vector_db == <<disk, instances, returned_ids, loaded, tests, uuids, vlast>>

normalizer == <<norm_in, norm_out>>

\* The state of the crawler.
crawler ==
    <<seen_links, relevant_links, non_college_urls, urls_not_fetched, error_urls,
      extracted_data, google_drive_urls, downloadables, storage_file, driver, pc,
      snapshot, idx, aidx, links_data, runs, failures, history>>

vars == <<crawler, vector_db, normalizer>>

\* ---------------------------------------------------------------- dicts
EmptyDict == <<>>

HasKey(d, k) == k \in DOMAIN d

Values(d) == {d[k] : k \in DOMAIN d}

\* Faulty variant of DictPut: only a key the dict already holds is written.
DictPutExistingOnly(d, k, v) == [x \in DOMAIN d |-> IF x = k THEN v ELSE d[x]]

\* d[k] = v
DictPut(d, k, v) == [x \in DOMAIN d \cup {k} |-> IF x = k THEN v ELSE d[x]]

\* d.get(k, default)
Get(d, k, default) == IF k \in DOMAIN d THEN d[k] ELSE default

\* An insertion-ordered dict as the sequence of its items.
Keys(items) == {items[i].norm : i \in DOMAIN items}

\* relevant_links[norm] = url on the insertion-ordered dict.
ItemsPut(items, n, u) ==
    IF n \in Keys(items)
    THEN [i \in DOMAIN items |-> IF items[i].norm = n THEN [norm |-> n, url |-> u] ELSE items[i]]
    ELSE Append(items, [norm |-> n, url |-> u])

\* [item[0] for item in lst]
Names(lst) == {lst[i][1] : i \in DOMAIN lst}

\* The files of src/vectorDB: the two configured ones and the two of src/test.py.
FileNames == {"faiss_index_file.index", "metadata.pkl", "test_faiss.index", "test_metadata.pkl"}

\* No file: exists is FALSE; "by", "calls" and "objs" are history: the object
\* that wrote the file, the number of create_and_store_embedding calls it had
\* made and the number of objects constructed by then.
NoFile == [exists |-> FALSE, data |-> <<>>, by |-> 0, calls |-> 0, objs |-> 0]

NoFiles == [f \in FileNames |-> NoFile]

EmptyDownloadables == [pdf |-> <<>>, docx |-> <<>>, xlsx |-> <<>>, zip |-> <<>>]

MediaExts == {"png", "jpg", "jpeg", "gif", "svg", "mp4", "avi", "mkv", "mov", "wmv", "flv", "webm"}

DocExts == {"pdf", "docx", "xlsx", "zip"}

\* ---------------------------------------------------------------- checkpoint
\* The dict __save_data pickles.
SaveData(seen, noncollege, notfetched, errors, extracted, gdrive, dls) ==
    [seen_links |-> seen,
     non_college_urls |-> noncollege,
     urls_not_fetched |-> notfetched,
     error_urls |-> errors,
     extracted_data |-> extracted,
     google_drive_urls |-> gdrive,
     downloadables |-> dls]

\* Faulty variant of LoadData: the key of the downloadables is misspelt, so the
\* default is always taken.
LoadDataMisspeltKey(data) ==
    [seen_links |-> Get(data, "seen_links", EmptyDict),
     non_college_urls |-> Get(data, "non_college_urls", {}),
     urls_not_fetched |-> Get(data, "urls_not_fetched", {}),
     error_urls |-> Get(data, "error_urls", {}),
     extracted_data |-> Get(data, "extracted_data", EmptyDict),
     google_drive_urls |-> Get(data, "google_drive_urls", {}),
     downloadables |-> Get(data, "downloadable", EmptyDownloadables)]

\* Faulty variant of LoadData: error_urls is read from the key of
\* urls_not_fetched.
LoadDataSwappedSets(data) ==
    [seen_links |-> Get(data, "seen_links", EmptyDict),
     non_college_urls |-> Get(data, "non_college_urls", {}),
     urls_not_fetched |-> Get(data, "urls_not_fetched", {}),
     error_urls |-> Get(data, "urls_not_fetched", {}),
     extracted_data |-> Get(data, "extracted_data", EmptyDict),
     google_drive_urls |-> Get(data, "google_drive_urls", {}),
     downloadables |-> Get(data, "downloadables", EmptyDownloadables)]

\* The attributes __load_data sets from the unpickled dict.
LoadData(data) ==
    [seen_links |-> Get(data, "seen_links", EmptyDict),
     non_college_urls |-> Get(data, "non_college_urls", {}),
     urls_not_fetched |-> Get(data, "urls_not_fetched", {}),
     error_urls |-> Get(data, "error_urls", {}),
     extracted_data |-> Get(data, "extracted_data", EmptyDict),
     google_drive_urls |-> Get(data, "google_drive_urls", {}),
     downloadables |-> Get(data, "downloadables", EmptyDownloadables)]

\* The attributes __init__ sets before it looks for the storage file.
FreshData == LoadData(EmptyDict)

\* ContentFetcher.__init__: empty registries, replaced by the stored ones when
\* the storage file exists.
Constructed(file) == IF file.exists THEN LoadData(file.data) ELSE FreshData

\* No VectorDatabaseModule has been constructed and no file of it is on disk.
VectorDbAtRest ==
    /\ disk = NoFiles
    /\ instances = <<>>
    /\ returned_ids = <<>>
    /\ loaded = {}
    /\ tests = 0
    /\ uuids = 0
    /\ vlast = [op |-> "init", obj |-> 0, file |-> None]

\* normalize_url has not been called.
NormalizerAtRest ==
    /\ norm_in = <<BlankUrl, BlankUrl>>
    /\ norm_out = [done |-> FALSE, keys |-> <<EmptyNorm, EmptyNorm>>]

Step(op, u, fp, skipped, nprobes) ==
    [op |-> op, url |-> u, fp |-> fp, skipped |-> skipped, probes |-> nprobes]

\* A ContentFetcher has been constructed on a directory without storage file.
CrawlerAtRest ==
    /\ seen_links = FreshData.seen_links
    /\ relevant_links = <<>>
    /\ non_college_urls = FreshData.non_college_urls
    /\ urls_not_fetched = FreshData.urls_not_fetched
    /\ error_urls = FreshData.error_urls
    /\ extracted_data = FreshData.extracted_data
    /\ google_drive_urls = FreshData.google_drive_urls
    /\ downloadables = FreshData.downloadables
    /\ storage_file = [exists |-> FALSE, data |-> EmptyDict]
    /\ driver = [alive |-> TRUE, current_url |-> BlankUrl]
    /\ pc = "idle"
    /\ snapshot = <<>>
    /\ idx = 0
    /\ aidx = 0
    /\ links_data = <<>>
    /\ runs = 1
    /\ failures = 0
    /\ navigated = {}
    /\ downloaded = {}
    /\ requested = {}
    /\ failed = {}
    /\ probed = {}
    /\ processed = {}
    /\ dispatched = {}
    /\ flushed = [exists |-> FALSE, data |-> EmptyDict]
    /\ last = Step("init", BlankUrl, None, FALSE, 0)

Init ==
    /\ CrawlerAtRest
    /\ VectorDbAtRest
    /\ NormalizerAtRest

\* ---------------------------------------------------------------- process_url
\* Faulty variant of SeedIsSkipped: the key is not looked up in seen_links.
SeedIsSkippedValuesOnly(normalized_url, hash, seen) == hash \in Values(seen)

\* The seed test of process_url: the key is in seen_links, or the probe's
\* result (None included) is among the values of seen_links.
SeedIsSkipped(normalized_url, hash, seen) ==
    HasKey(seen, normalized_url) \/ hash \in Values(seen)

\* process_url up to the while loop.  The first probe is issued only when the
\* key is new (short-circuit or), the second only when the seed is kept.
ProcessUrl(url, ok1, ok2) ==
    LET normalized_url == normalize_url(url)
        inseen == HasKey(seen_links, normalized_url)
        h1 == fetch_and_hash_content(url, ok1)
        h2 == fetch_and_hash_content(url, ok2)
        skipped == SeedIsSkipped(normalized_url, h1, seen_links)
        nprobes == IF inseen THEN 0 ELSE IF skipped THEN 1 ELSE 2
        nfail == (IF nprobes >= 1 /\ ~ok1 THEN 1 ELSE 0) + (IF nprobes = 2 /\ ~ok2 THEN 1 ELSE 0)
    IN  /\ pc = "idle"
        /\ nprobes < 1 => ok1
        /\ nprobes < 2 => ok2
        /\ failures + nfail <= MaxFailures
        /\ failures' = failures + nfail
        /\ IF skipped
           THEN /\ pc' = "returned"
                /\ UNCHANGED <<seen_links, relevant_links>>
           ELSE /\ seen_links' = DictPut(seen_links, normalized_url, h2)
                /\ relevant_links' = ItemsPut(relevant_links, normalized_url, url)
                /\ pc' = "loop"
        /\ failed' = IF nfail > 0 THEN failed \cup {url} ELSE failed
        /\ probed' = IF nprobes = 0 THEN probed ELSE probed \cup {url}
        /\ processed' = processed \cup {normalized_url}
        /\ last' = Step("seed", url, IF inseen THEN None ELSE h1, skipped, nprobes)
        /\ UNCHANGED <<non_college_urls, urls_not_fetched, error_urls, extracted_data,
                       google_drive_urls, downloadables, storage_file, driver, snapshot,
                       idx, aidx, links_data, runs, navigated, downloaded,
                       requested,
                       dispatched, flushed, vector_db, normalizer>>

\* Faulty variant of WaveStart: the Frontier is not cleared after the copy.
WaveStartKeepsFrontier ==
    /\ pc = "loop"
    /\ relevant_links /= <<>>
    /\ snapshot' = relevant_links
    /\ idx' = 1
    /\ pc' = "wave"
    /\ last' = Step("wave_start", BlankUrl, None, FALSE, 0)
    /\ UNCHANGED <<registries, relevant_links, storage_file, driver, aidx, links_data, runs,
                   failures, navigated, downloaded, probed, processed, requested, failed,
                   dispatched, flushed, vector_db, normalizer>>

\* while self.__relevant_links: snapshot = copy; clear.
WaveStart ==
    /\ pc = "loop"
    /\ relevant_links /= <<>>
    /\ snapshot' = relevant_links
    /\ relevant_links' = <<>>
    /\ idx' = 1
    /\ pc' = "wave"
    /\ last' = Step("wave_start", BlankUrl, None, FALSE, 0)
    /\ UNCHANGED <<registries, storage_file, driver, aidx, links_data, runs, failures,
                   navigated, downloaded, probed, processed,
                   requested, failed,
                   dispatched, flushed, vector_db, normalizer>>

\* The file __save_data leaves behind when pickle.dump has returned.
Pickled ==
    [exists |-> TRUE,
     data |-> SaveData(seen_links, non_college_urls, urls_not_fetched, error_urls,
                       extracted_data, google_drive_urls, downloadables)]

\* The loop ends on an empty Frontier: self.__save_data().
Save ==
    /\ pc = "loop"
    /\ relevant_links = <<>>
    /\ storage_file' = Pickled
    /\ flushed' = Pickled
    /\ pc' = "saved"
    /\ last' = Step("save", BlankUrl, None, FALSE, 0)
    /\ UNCHANGED <<registries, relevant_links, driver, snapshot, idx, aidx, links_data,
                   runs, failures, navigated, downloaded, probed, processed, requested,
                   failed, dispatched, vector_db, normalizer>>

\* quit_driver(self.__driver), the last statement of process_url.
Quit ==
    /\ pc = "saved"
    /\ driver' = [driver EXCEPT !.alive = FALSE]
    /\ pc' = "done"
    /\ last' = Step("quit", BlankUrl, None, FALSE, 0)
    /\ UNCHANGED <<registries, relevant_links, storage_file, snapshot, idx, aidx,
                   links_data, runs, failures, navigated, downloaded, probed, processed,
                   requested, failed, dispatched, flushed, vector_db, normalizer>>

\* Faulty variant of WaveEnd: the checkpoint is written after every wave.
WaveEndSaves ==
    /\ pc = "wave"
    /\ idx > Len(snapshot)
    /\ pc' = "loop"
    /\ storage_file' = Pickled
    /\ flushed' = Pickled
    /\ last' = Step("wave_end", BlankUrl, None, FALSE, 0)
    /\ UNCHANGED <<registries, relevant_links, driver, snapshot, idx, aidx,
                   links_data, runs, failures, navigated, downloaded, probed, processed,
                   requested, failed, dispatched, vector_db, normalizer>>

\* The for loop over the snapshot is exhausted.
WaveEnd ==
    /\ pc = "wave"
    /\ idx > Len(snapshot)
    /\ pc' = "loop"
    /\ last' = Step("wave_end", BlankUrl, None, FALSE, 0)
    /\ UNCHANGED <<registries, relevant_links, storage_file, driver, snapshot, idx, aidx,
                   links_data, runs, failures, navigated, downloaded, probed, processed,
                   requested, failed,
                   dispatched, flushed, vector_db, normalizer>>

AtEntry == pc = "wave" /\ idx <= Len(snapshot)

EntryUrl == snapshot[idx].url

\* else: self.__non_college_urls.add(url)
EntryNonCollege ==
    /\ AtEntry
    /\ ~is_college_url(EntryUrl)
    /\ non_college_urls' = non_college_urls \cup {EntryUrl}
    /\ idx' = idx + 1
    /\ dispatched' = dispatched \cup {normalize_url(EntryUrl)}
    /\ last' = Step("non_college", EntryUrl, None, FALSE, 0)
    /\ UNCHANGED <<seen_links, urls_not_fetched, error_urls, extracted_data, google_drive_urls,
                   downloadables, relevant_links, storage_file, driver, pc, snapshot, aidx,
                   links_data, runs, failures, navigated, downloaded, probed, processed,
                   requested, failed,
                   flushed, vector_db, normalizer>>

PdfRecord(url, source) == [kind |-> "pdf", url |-> url, source |-> source, files |-> <<>>]

\* if is_pdf_url(url): download unless the filename is in downloadables['pdf'].
EntryPdf(ok) ==
    LET url == EntryUrl
        filename == get_name_from_url(url)
        fresh == filename \notin Names(downloadables.pdf)
    IN  /\ AtEntry
        /\ is_college_url(url)
        /\ is_pdf_url(url)
        /\ ~fresh => ok
        /\ failures + (IF ok THEN 0 ELSE 1) <= MaxFailures
        /\ failures' = failures + (IF ok THEN 0 ELSE 1)
        /\ failed' = IF ok THEN failed ELSE failed \cup {url}
        /\ downloaded' = IF fresh THEN downloaded \cup {url} ELSE downloaded
        /\ IF fresh /\ ok
           THEN /\ extracted_data' =
                       DictPut(extracted_data, normalize_url(url), PdfRecord(url, driver.current_url))
                /\ downloadables' = [downloadables EXCEPT !.pdf = Append(@, <<filename, url>>)]
           ELSE UNCHANGED <<extracted_data, downloadables>>
        /\ idx' = idx + 1
        /\ dispatched' = dispatched \cup {normalize_url(EntryUrl)}
        /\ last' = Step("pdf", url, None, ~fresh, 0)
        /\ UNCHANGED <<seen_links, non_college_urls, urls_not_fetched, error_urls,
                       google_drive_urls, relevant_links, storage_file, driver, pc, snapshot,
                       aidx, links_data, runs, navigated, probed, processed,
                       requested,
                       flushed, vector_db, normalizer>>

\* f"https://drive.google.com/uc?id={file_id}"
google_drive_download_url(file_id) ==
    Url("https", "drive.google.com", "uc", "", FALSE, << <<"id", file_id>> >>, "")

\* elif is_google_drive_url(url): download the file behind the id unless the
\* id is a filename of downloadables['pdf'].
EntryGoogleDrive(ok) ==
    LET url == EntryUrl
        file_id == extract_google_drive_file_id(url)
        fresh == file_id /= None /\ file_id \notin Names(downloadables.pdf)
    IN  /\ AtEntry
        /\ is_college_url(url)
        /\ ~is_pdf_url(url)
        /\ is_google_drive_url(url)
        /\ ~fresh => ok
        /\ failures + (IF ok THEN 0 ELSE 1) <= MaxFailures
        /\ failures' = failures + (IF ok THEN 0 ELSE 1)
        /\ failed' = IF ok THEN failed ELSE failed \cup {url}
        /\ downloaded' = IF fresh THEN downloaded \cup {url} ELSE downloaded
        /\ requested' =
               IF fresh THEN requested \cup {google_drive_download_url(file_id)} ELSE requested
        /\ IF fresh /\ ok
           THEN /\ extracted_data' =
                       DictPut(extracted_data, normalize_url(url), PdfRecord(url, driver.current_url))
                /\ downloadables' = [downloadables EXCEPT !.pdf = Append(@, <<file_id, url>>)]
                /\ google_drive_urls' = google_drive_urls \cup {url}
           ELSE UNCHANGED <<extracted_data, downloadables, google_drive_urls>>
        /\ idx' = idx + 1
        /\ dispatched' = dispatched \cup {normalize_url(EntryUrl)}
        /\ last' = Step("google_drive", url, None, ~fresh, 0)
        /\ UNCHANGED <<seen_links, non_college_urls, urls_not_fetched, error_urls,
                       relevant_links, storage_file, driver, pc, snapshot, aidx, links_data,
                       runs, navigated, probed, processed,
                       flushed, vector_db, normalizer>>

IsPageEntry ==
    /\ AtEntry
    /\ is_college_url(EntryUrl)
    /\ ~is_pdf_url(EntryUrl)
    /\ ~is_google_drive_url(EntryUrl)

\* can_fetch_content(url) is False: self.__urls_not_fetched.add(url)
EntryUnfetchable ==
    /\ IsPageEntry
    /\ failures < MaxFailures
    /\ failures' = failures + 1
    /\ urls_not_fetched' = urls_not_fetched \cup {EntryUrl}
    /\ idx' = idx + 1
    /\ dispatched' = dispatched \cup {normalize_url(EntryUrl)}
    /\ last' = Step("unfetchable", EntryUrl, None, FALSE, 0)
    /\ UNCHANGED <<seen_links, non_college_urls, error_urls, extracted_data, google_drive_urls,
                   downloadables, relevant_links, storage_file, driver, pc, snapshot, aidx,
                   links_data, runs, navigated, downloaded, probed, processed,
                   requested, failed,
                   flushed, vector_db, normalizer>>

\* Faulty variant of ExceptHandler: the exception is recorded and raised
\* again, which ends process_url before the rest of the snapshot is processed.
ExceptHandlerReraises(url) ==
    /\ error_urls' = error_urls \cup {url}
    /\ idx' = idx
    /\ pc' = "returned"
    /\ UNCHANGED <<snapshot, extracted_data>>

\* Faulty variant of ExceptHandler: a record is stored for the page that raised.
ExceptHandlerStoresRecord(url) ==
    /\ error_urls' = error_urls \cup {url}
    /\ idx' = idx + 1
    /\ pc' = "wave"
    /\ extracted_data' =
           DictPut(extracted_data, normalize_url(url),
                   [kind |-> "page", url |-> url, source |-> url, files |-> <<>>])
    /\ UNCHANGED snapshot

\* except Exception: self.__error_urls.add(url); the for loop goes on.
ExceptHandler(url) ==
    /\ error_urls' = error_urls \cup {url}
    /\ idx' = idx + 1
    /\ pc' = "wave"
    /\ UNCHANGED <<snapshot, extracted_data>>

\* __fetch_content raises before the links are processed: in driver.get
\* (stage "get") or in the text, image or video extractor (stage "extract").
EntryFetchRaises(stage) ==
    /\ IsPageEntry
    /\ failures < MaxFailures
    /\ failures' = failures + 1
    /\ failed' = IF stage = "get" THEN failed \cup {EntryUrl} ELSE failed
    /\ navigated' = navigated \cup {EntryUrl}
    /\ driver' = IF stage = "extract" THEN [driver EXCEPT !.current_url = EntryUrl] ELSE driver
    /\ ExceptHandler(EntryUrl)
    /\ dispatched' = dispatched \cup {normalize_url(EntryUrl)}
    /\ last' = Step("fetch_raises", EntryUrl, None, FALSE, 0)
    /\ UNCHANGED <<seen_links, non_college_urls, urls_not_fetched, google_drive_urls,
                   downloadables, relevant_links, storage_file, aidx, links_data, runs,
                   downloaded, probed, processed,
                   requested,
                   flushed, vector_db, normalizer>>

\* __fetch_content up to process_href_links: driver.get(url), the page parsed,
\* text, images and videos extracted.
EntryFetchPage ==
    /\ IsPageEntry
    /\ navigated' = navigated \cup {EntryUrl}
    /\ driver' = [driver EXCEPT !.current_url = EntryUrl]
    /\ pc' = "links"
    /\ aidx' = 1
    /\ links_data' = <<>>
    /\ dispatched' = dispatched \cup {normalize_url(EntryUrl)}
    /\ last' = Step("fetch_page", EntryUrl, None, FALSE, 0)
    /\ UNCHANGED <<registries, relevant_links, storage_file, snapshot, idx, runs, failures,
                   downloaded, probed, processed,
                   requested, failed,
                   flushed, vector_db, normalizer>>

\* ---------------------------------------------------------------- process_href_links
\* soup.find_all('a', href=True) of the page the browser shows.
all_links == Anchors(driver.current_url)

AtAnchor == pc = "links" /\ aidx <= Len(all_links)

\* full_url = urljoin(self.__driver.current_url, href)
full_url == all_links[aidx]

\* A step of the for loop over the anchors raises (driver.current_url on a
\* lost session, urljoin or urlparse on a malformed href): the exception leaves
\* __fetch_content and reaches the handler of process_url.
LinkRaises ==
    /\ AtAnchor
    /\ failures < MaxFailures
    /\ failures' = failures + 1
    /\ ExceptHandler(EntryUrl)
    /\ last' = Step("link_raises", EntryUrl, None, FALSE, 0)
    /\ UNCHANGED <<seen_links, non_college_urls, urls_not_fetched, google_drive_urls,
                   downloadables, relevant_links, storage_file, driver, aidx, links_data, runs,
                   navigated, downloaded, probed, processed,
                   requested, failed,
                   dispatched, flushed, vector_db, normalizer>>

\* href ends with an image or video extension: continue
LinkMedia ==
    /\ AtAnchor
    /\ EndsWithExt(full_url, MediaExts)
    /\ aidx' = aidx + 1
    /\ processed' = processed \cup {normalize_url(full_url)}
    /\ last' = Step("link_media", full_url, None, TRUE, 0)
    /\ UNCHANGED <<registries, relevant_links, storage_file, driver, pc, snapshot, idx,
                   links_data, runs, failures, navigated, downloaded, probed,
                   requested, failed,
                   dispatched, flushed, vector_db, normalizer>>

\* Faulty variant of NotYetDownloaded: the pdf list is not searched.
NotYetDownloadedIgnoresPdf(file_name, dls) ==
    file_name \notin Names(dls.docx) \cup Names(dls.xlsx) \cup Names(dls.zip)

\* The filename test of __handle_downloadable: the name is in none of the four lists.
NotYetDownloaded(file_name, dls) ==
    /\ file_name \notin Names(dls.pdf)
    /\ file_name \notin Names(dls.docx)
    /\ file_name \notin Names(dls.xlsx)
    /\ file_name \notin Names(dls.zip)

\* href ends with a document extension: __handle_downloadable(full_url, ...).
LinkDownloadable(ok) ==
    LET file_name == get_name_from_url(full_url)
        fresh == NotYetDownloaded(file_name, downloadables)
        file_ext == full_url.ext
    IN  /\ AtAnchor
        /\ ~EndsWithExt(full_url, MediaExts)
        /\ EndsWithExt(full_url, DocExts)
        /\ ~fresh => ok
        /\ failures + (IF ok THEN 0 ELSE 1) <= MaxFailures
        /\ failures' = failures + (IF ok THEN 0 ELSE 1)
        /\ failed' = IF ok THEN failed ELSE failed \cup {full_url}
        /\ downloaded' = IF fresh THEN downloaded \cup {full_url} ELSE downloaded
        /\ IF fresh /\ ok /\ file_ext \in DocExts
           THEN /\ links_data' = Append(links_data, full_url)
                /\ downloadables' =
                       [downloadables EXCEPT ![file_ext] = Append(@, <<file_name, full_url>>)]
           ELSE UNCHANGED <<links_data, downloadables>>
        /\ aidx' = aidx + 1
        /\ processed' = processed \cup {normalize_url(full_url)}
        /\ last' = Step("link_downloadable", full_url, None, ~fresh, 0)
        /\ UNCHANGED <<seen_links, non_college_urls, urls_not_fetched, error_urls,
                       extracted_data, google_drive_urls, relevant_links, storage_file, driver,
                       pc, snapshot, idx, runs, navigated, probed,
                       requested,
                       dispatched, flushed, vector_db, normalizer>>

IsPlainLink == AtAnchor /\ ~EndsWithExt(full_url, MediaExts) /\ ~EndsWithExt(full_url, DocExts)

\* Faulty variant of LinkIsSeen: the key is not looked up in seen_links.
LinkIsSeenEmptyOnly(normalized_url, seen) == normalized_url = EmptyNorm

\* elif not normalized_url or normalized_url in seen_links: continue
LinkIsSeen(normalized_url, seen) == normalized_url = EmptyNorm \/ HasKey(seen, normalized_url)

LinkSeen ==
    /\ IsPlainLink
    /\ LinkIsSeen(normalize_url(full_url), seen_links)
    /\ aidx' = aidx + 1
    /\ processed' = processed \cup {normalize_url(full_url)}
    /\ last' = Step("link_seen", full_url, None, TRUE, 0)
    /\ UNCHANGED <<registries, relevant_links, storage_file, driver, pc, snapshot, idx,
                   links_data, runs, failures, navigated, downloaded, probed,
                   requested, failed,
                   dispatched, flushed, vector_db, normalizer>>

\* Faulty variant of LinkIsKept: the fingerprint is not looked up among the
\* values of seen_links.
LinkIsKeptAnyHash(content_hash, seen) == content_hash /= None

\* Faulty variant of LinkIsKept: a missing fingerprint is not tested.
LinkIsKeptWithoutHash(content_hash, seen) == content_hash \notin Values(seen)

\* if content_hash and content_hash not in seen_links.values()
LinkIsKept(content_hash, seen) == content_hash /= None /\ content_hash \notin Values(seen)

\* else: content_hash = fetch_and_hash_content(full_url); a kept link is
\* recorded in seen_links and put into relevant_links.
LinkProbe(ok) ==
    LET normalized_url == normalize_url(full_url)
        content_hash == fetch_and_hash_content(full_url, ok)
        kept == LinkIsKept(content_hash, seen_links)
    IN  /\ IsPlainLink
        /\ ~LinkIsSeen(normalized_url, seen_links)
        /\ failures + (IF ok THEN 0 ELSE 1) <= MaxFailures
        /\ failures' = failures + (IF ok THEN 0 ELSE 1)
        /\ failed' = IF ok THEN failed ELSE failed \cup {full_url}
        /\ probed' = probed \cup {full_url}
        /\ IF kept
           THEN /\ seen_links' = DictPut(seen_links, normalized_url, content_hash)
                /\ relevant_links' = ItemsPut(relevant_links, normalized_url, full_url)
           ELSE UNCHANGED <<seen_links, relevant_links>>
        /\ aidx' = aidx + 1
        /\ processed' = processed \cup {normalized_url}
        /\ last' = Step("link_probe", full_url, content_hash, ~kept, 1)
        /\ UNCHANGED <<non_college_urls, urls_not_fetched, error_urls, extracted_data,
                       google_drive_urls, downloadables, storage_file, driver, pc, snapshot,
                       idx, links_data, runs, navigated, downloaded,
                       requested,
                       dispatched, flushed, vector_db, normalizer>>

\* create_content_dictionary(text_data, images_data, links_data, video_data)
create_content_dictionary(url, source, files) ==
    [kind |-> "page", url |-> url, source |-> source, files |-> files]

\* process_href_links returns; if content: extracted_data[normalized_url] = content
FinishPage ==
    /\ pc = "links"
    /\ aidx > Len(all_links)
    /\ extracted_data' =
           DictPut(extracted_data, normalize_url(EntryUrl),
                   create_content_dictionary(EntryUrl, driver.current_url, links_data))
    /\ idx' = idx + 1
    /\ pc' = "wave"
    /\ last' = Step("page_stored", EntryUrl, None, FALSE, 0)
    /\ UNCHANGED <<seen_links, non_college_urls, urls_not_fetched, error_urls,
                   google_drive_urls, downloadables, relevant_links, storage_file, driver,
                   snapshot, aidx, links_data, runs, failures, navigated, downloaded, probed,
                   processed,
                   requested, failed,
                   dispatched, flushed, vector_db, normalizer>>

\* ---------------------------------------------------------------- runs
\* The process ends (after the checkpoint, or after the return on a duplicate
\* seed) and a later one constructs a ContentFetcher on the same storage file.
NewRun ==
    /\ pc \in {"returned", "done"}
    /\ runs < MaxRuns
    /\ runs' = runs + 1
    /\ seen_links' = Constructed(storage_file).seen_links
    /\ non_college_urls' = Constructed(storage_file).non_college_urls
    /\ urls_not_fetched' = Constructed(storage_file).urls_not_fetched
    /\ error_urls' = Constructed(storage_file).error_urls
    /\ extracted_data' = Constructed(storage_file).extracted_data
    /\ google_drive_urls' = Constructed(storage_file).google_drive_urls
    /\ downloadables' = Constructed(storage_file).downloadables
    /\ relevant_links' = <<>>
    /\ driver' = [alive |-> TRUE, current_url |-> BlankUrl]
    /\ pc' = "idle"
    /\ snapshot' = <<>>
    /\ idx' = 0
    /\ aidx' = 0
    /\ links_data' = <<>>
    /\ failed' = {}
    /\ last' = Step("new_run", BlankUrl, None, FALSE, 0)
    /\ UNCHANGED <<storage_file, failures, navigated, downloaded, probed, processed,
                   requested,
                   dispatched, flushed, vector_db, normalizer>>

Next ==
    \/ \E url \in Seeds, ok1 \in BOOLEAN, ok2 \in BOOLEAN : ProcessUrl(url, ok1, ok2)
    \/ WaveStart
    \/ WaveEnd
    \/ EntryNonCollege
    \/ \E ok \in BOOLEAN : EntryPdf(ok)
    \/ \E ok \in BOOLEAN : EntryGoogleDrive(ok)
    \/ EntryUnfetchable
    \/ \E stage \in {"get", "extract"} : EntryFetchRaises(stage)
    \/ EntryFetchPage
    \/ LinkRaises
    \/ LinkMedia
    \/ \E ok \in BOOLEAN : LinkDownloadable(ok)
    \/ LinkSeen
    \/ \E ok \in BOOLEAN : LinkProbe(ok)
    \/ FinishPage
    \/ Save
    \/ Quit
    \/ NewRun

Spec == Init /\ [][Next]_vars

\* The statements of one process_url call after the seed test.  The call is
\* sequential code whose collaborators return, so it keeps taking steps while
\* one is possible.
RunStep ==
    \/ WaveStart
    \/ WaveEnd
    \/ EntryNonCollege
    \/ \E ok \in BOOLEAN : EntryPdf(ok)
    \/ \E ok \in BOOLEAN : EntryGoogleDrive(ok)
    \/ EntryUnfetchable
    \/ \E stage \in {"get", "extract"} : EntryFetchRaises(stage)
    \/ EntryFetchPage
    \/ LinkRaises
    \/ LinkMedia
    \/ \E ok \in BOOLEAN : LinkDownloadable(ok)
    \/ LinkSeen
    \/ \E ok \in BOOLEAN : LinkProbe(ok)
    \/ FinishPage
    \/ Save
    \/ Quit

\* One process_url call on a newly constructed ContentFetcher.
RunNext ==
    \/ \E url \in Seeds, ok1 \in BOOLEAN, ok2 \in BOOLEAN : ProcessUrl(url, ok1, ok2)
    \/ RunStep

FairSpec == Init /\ [][RunNext]_vars /\ WF_vars(RunStep)

\* ---------------------------------------------------------------- interruption
\* The storage file after open(file, 'wb') has truncated it and the process
\* died before pickle.dump had written the whole dict.
Torn == [exists |-> TRUE, data |-> [torn |-> TRUE]]

\* pickle.load raises (EOFError, UnpicklingError) on a torn file.
Unpicklable(file) == file.exists /\ "torn" \in DOMAIN file.data

\* The process is killed while a run is under way, outside __save_data.
Interrupt ==
    /\ pc \in {"idle", "loop", "wave", "links", "saved"}
    /\ pc' = "crashed"
    /\ last' = Step("interrupt", BlankUrl, None, FALSE, 0)
    /\ UNCHANGED <<registries, relevant_links, storage_file, driver, snapshot, idx, aidx,
                   links_data, runs, failures, navigated, downloaded, probed, processed,
                   requested, failed, dispatched, flushed, vector_db, normalizer>>

\* The process is killed inside __save_data, between open(..., 'wb') and the
\* end of pickle.dump.
InterruptSave ==
    /\ pc = "loop"
    /\ relevant_links = <<>>
    /\ storage_file' = Torn
    /\ pc' = "crashed"
    /\ last' = Step("interrupt_save", BlankUrl, None, FALSE, 0)
    /\ UNCHANGED <<registries, relevant_links, driver, snapshot, idx, aidx,
                   links_data, runs, failures, navigated, downloaded, probed, processed,
                   requested, failed, dispatched, flushed, vector_db, normalizer>>

\* A ContentFetcher is constructed after an interruption; the storage file is
\* absent or whole.
RestartLoads ==
    /\ pc = "crashed"
    /\ ~Unpicklable(storage_file)
    /\ runs < MaxRuns
    /\ runs' = runs + 1
    /\ seen_links' = Constructed(storage_file).seen_links
    /\ non_college_urls' = Constructed(storage_file).non_college_urls
    /\ urls_not_fetched' = Constructed(storage_file).urls_not_fetched
    /\ error_urls' = Constructed(storage_file).error_urls
    /\ extracted_data' = Constructed(storage_file).extracted_data
    /\ google_drive_urls' = Constructed(storage_file).google_drive_urls
    /\ downloadables' = Constructed(storage_file).downloadables
    /\ relevant_links' = <<>>
    /\ driver' = [alive |-> TRUE, current_url |-> BlankUrl]
    /\ pc' = "idle"
    /\ snapshot' = <<>>
    /\ idx' = 0
    /\ aidx' = 0
    /\ links_data' = <<>>
    /\ failed' = {}
    /\ last' = Step("restart", BlankUrl, None, FALSE, 0)
    /\ UNCHANGED <<storage_file, failures, navigated, downloaded, probed, processed,
                   requested, dispatched, flushed, vector_db, normalizer>>

\* A ContentFetcher is constructed after an interruption of __save_data: the
\* file exists, __load_data's pickle.load raises and __init__ does not return.
RestartFails ==
    /\ pc = "crashed"
    /\ Unpicklable(storage_file)
    /\ runs < MaxRuns
    /\ runs' = runs + 1
    /\ seen_links' = FreshData.seen_links
    /\ non_college_urls' = FreshData.non_college_urls
    /\ urls_not_fetched' = FreshData.urls_not_fetched
    /\ error_urls' = FreshData.error_urls
    /\ extracted_data' = FreshData.extracted_data
    /\ google_drive_urls' = FreshData.google_drive_urls
    /\ downloadables' = FreshData.downloadables
    /\ relevant_links' = <<>>
    /\ driver' = [alive |-> TRUE, current_url |-> BlankUrl]
    /\ pc' = "init_failed"
    /\ snapshot' = <<>>
    /\ idx' = 0
    /\ aidx' = 0
    /\ links_data' = <<>>
    /\ failed' = {}
    /\ last' = Step("restart", BlankUrl, None, FALSE, 0)
    /\ UNCHANGED <<storage_file, failures, navigated, downloaded, probed, processed,
                   requested, dispatched, flushed, vector_db, normalizer>>

CrashNext ==
    \/ Next
    \/ Interrupt
    \/ InterruptSave
    \/ RestartLoads
    \/ RestartFails

\* The crawler with interruptions.
CrashSpec == Init /\ [][CrashNext]_vars

\* ---------------------------------------------------------------- normalize_url alone
\* The query strings handed to normalize_url.
NormQueries ==
    {<<>>,
     << <<"utm_source", "x">> >>,
     << <<"a", "1">> >>,
     << <<"a", "2">> >>,
     << <<"a", "1">>, <<"b", "2">> >>,
     << <<"b", "2">>, <<"a", "1">> >>,
     << <<"b", "2">>, <<"utm_source", "x">> >>,
     << <<"a", "1">>, <<"utm_medium", "x">>, <<"b", "2">> >>,
     << <<"utm_campaign", "x">>, <<"b", "2">>, <<"a", "1">> >>}

\* The raw URLs handed to normalize_url.
NormInputs ==
    {Url(s, h, "a", "", sl, q, f) :
        s \in {"http", "https", "HTTP", "HTTPS"}, h \in {College, "NITJ.AC.IN"},
        sl \in BOOLEAN, q \in NormQueries, f \in {"", "section2"}}

NormInit ==
    /\ CrawlerAtRest
    /\ VectorDbAtRest
    /\ norm_in \in NormInputs \X NormInputs
    /\ norm_out = [done |-> FALSE, keys |-> <<EmptyNorm, EmptyNorm>>]

\* normalize_url(url) on each of the two URLs.
Normalize ==
    /\ ~norm_out.done
    /\ norm_out' = [done |-> TRUE,
                    keys |-> <<normalize_url(norm_in[1]), normalize_url(norm_in[2])>>]
    /\ UNCHANGED <<crawler, vector_db, norm_in>>

NormSpec == NormInit /\ [][Normalize]_vars

\* ---------------------------------------------------------------- vectorDB
\* os.getenv("FAISS_INDEX_FILE", ...), os.getenv("METADATA_FILE", ...)
index_file == "faiss_index_file.index"

metadata_file == "metadata.pkl"

\* The files src/test.py saves to and loads from.
test_index_file == "test_faiss.index"

test_metadata_file == "test_metadata.pkl"

\* The texts src/test.py embeds.
Texts == {"test_text_1", "test_text_2"}

\* self.model.encode([text])[0]: the vector of a text.
Encode(text) == [vector_of |-> text]

\* str(uuid.uuid4()): a string no earlier call returned.
Uuids == <<"uuid-1", "uuid-2", "uuid-3", "uuid-4", "uuid-5">>

\* faiss.write_index / pickle.dump by object i.
Written(data, i, ids) ==
    [exists |-> TRUE, data |-> data, by |-> i, calls |-> Len(ids[i]), objs |-> Len(instances)]

VStep(op, i, f) == [op |-> op, obj |-> i, file |-> f]

\* VectorDatabaseModule.__init__: an empty index and metadata, replaced by those
\* of the index file and the metadata file when they exist.
VectorDatabaseModule ==
    [index |-> IF disk[index_file].exists THEN disk[index_file].data ELSE <<>>,
     metadata |-> IF disk[metadata_file].exists THEN disk[metadata_file].data ELSE EmptyDict]

\* setUp of src/test.py: self.vector_db = VectorDatabaseModule().
setUp ==
    /\ instances = <<>>
    /\ tests < MaxTests
    /\ tests' = tests + 1
    /\ instances' = <<VectorDatabaseModule>>
    /\ returned_ids' = << <<>> >>
    /\ vlast' = VStep("construct", 1, None)
    /\ UNCHANGED <<crawler, normalizer, loaded, disk, uuids>>

\* new_vector_db = VectorDatabaseModule() in a test method.
NewVectorDb ==
    /\ Len(instances) = 1
    /\ instances' = Append(instances, VectorDatabaseModule)
    /\ returned_ids' = Append(returned_ids, <<>>)
    /\ vlast' = VStep("construct", 2, None)
    /\ UNCHANGED <<crawler, normalizer, loaded, disk, tests, uuids>>

\* create_and_store_embedding(text): add the vector, save the index, add the
\* metadata entry under len(self.metadata), save the metadata, return the ID.
create_and_store_embedding(i, text) ==
    LET embedding_id == Uuids[uuids + 1]
        index == Append(instances[i].index, Encode(text))
        metadata == DictPut(instances[i].metadata, Cardinality(DOMAIN instances[i].metadata),
                            [embeddingID |-> embedding_id])
        ids == [returned_ids EXCEPT ![i] = Append(@, embedding_id)]
    IN  /\ uuids < MaxEmbeddings
        /\ uuids' = uuids + 1
        /\ instances' = [instances EXCEPT ![i] = [index |-> index, metadata |-> metadata]]
        /\ returned_ids' = ids
        /\ disk' = [disk EXCEPT ![index_file] = Written(index, i, ids),
                                ![metadata_file] = Written(metadata, i, ids)]
        /\ vlast' = VStep("create", i, None)
        /\ UNCHANGED <<crawler, normalizer, loaded, tests>>

save_index_to_disk(i, f) ==
    /\ disk' = [disk EXCEPT ![f] = Written(instances[i].index, i, returned_ids)]
    /\ vlast' = VStep("save_index", i, f)
    /\ UNCHANGED <<crawler, normalizer, loaded, instances, returned_ids, tests, uuids>>

\* faiss.read_index raises when the file is missing.
load_index_from_disk(i, f) ==
    /\ disk[f].exists
    /\ instances' = [instances EXCEPT ![i].index = disk[f].data]
    /\ loaded' = loaded \cup {i}
    /\ vlast' = VStep("load_index", i, f)
    /\ UNCHANGED <<crawler, normalizer, disk, returned_ids, tests, uuids>>

save_metadata_to_disk(i, f) ==
    /\ disk' = [disk EXCEPT ![f] = Written(instances[i].metadata, i, returned_ids)]
    /\ vlast' = VStep("save_metadata", i, f)
    /\ UNCHANGED <<crawler, normalizer, loaded, instances, returned_ids, tests, uuids>>

\* open(metadata_file, 'rb') raises when the file is missing.
load_metadata_from_disk(i, f) ==
    /\ disk[f].exists
    /\ instances' = [instances EXCEPT ![i].metadata = disk[f].data]
    /\ loaded' = loaded \cup {i}
    /\ vlast' = VStep("load_metadata", i, f)
    /\ UNCHANGED <<crawler, normalizer, disk, returned_ids, tests, uuids>>

\* tearDown of src/test.py: the two test files are removed when they exist;
\* the objects of the test method are dropped.
tearDown ==
    /\ instances /= <<>>
    /\ disk' = [disk EXCEPT ![test_index_file] = NoFile, ![test_metadata_file] = NoFile]
    /\ instances' = <<>>
    /\ returned_ids' = <<>>
    /\ loaded' = {}
    /\ vlast' = VStep("tear_down", 0, None)
    /\ UNCHANGED <<crawler, normalizer, tests, uuids>>

VectorNext ==
    \/ setUp
    \/ NewVectorDb
    \/ \E i \in DOMAIN instances, text \in Texts : create_and_store_embedding(i, text)
    \/ \E i \in DOMAIN instances : save_index_to_disk(i, test_index_file)
    \/ \E i \in DOMAIN instances : load_index_from_disk(i, test_index_file)
    \/ \E i \in DOMAIN instances : save_metadata_to_disk(i, test_metadata_file)
    \/ \E i \in DOMAIN instances : load_metadata_from_disk(i, test_metadata_file)
    \/ tearDown

VectorSpec == Init /\ [][VectorNext]_vars

\* ---------------------------------------------------------------- properties
\* The steps that process one candidate: the seed, or one anchor of a page.
CandidateOps == {"seed", "link_media", "link_downloadable", "link_seen", "link_probe"}

\* The candidate of the step just taken, normalized.
LastKey == normalize_url(last.url)

\* The Dedup Store contract: the key is in the registry, or the fingerprint is
\* non-empty and already a value of the registry.
IsDuplicate(normalized_url, fingerprint, seen) ==
    HasKey(seen, normalized_url) \/ (fingerprint /= None /\ fingerprint \in Values(seen))

\* The registries as one record, as a checkpoint holds them.
Registries ==
    [seen_links |-> seen_links,
     non_college_urls |-> non_college_urls,
     urls_not_fetched |-> urls_not_fetched,
     error_urls |-> error_urls,
     extracted_data |-> extracted_data,
     google_drive_urls |-> google_drive_urls,
     downloadables |-> downloadables]

\* C1: a step that processes a candidate (seed or anchor) whose normalized URL
\* is already a key of seen_links, or whose fingerprint is non-empty and
\* already a value of seen_links, leaves relevant_links as it was.
C1_DuplicateNeverEnqueued ==
    [][(last'.op \in CandidateOps
        /\ IsDuplicate(normalize_url(last'.url), last'.fp, seen_links))
       => relevant_links' = relevant_links]_vars

\* C1 witness: an anchor whose key is new but whose fingerprint is already a
\* value of seen_links has been processed and is not in the Frontier.
C1_Witness ==
    /\ last.op = "link_probe"
    /\ last.fp /= None
    /\ ~HasKey(seen_links, LastKey)
    /\ last.fp \in Values(seen_links)
    /\ LastKey \notin Keys(relevant_links)

\* C2: a step that processes a candidate whose normalized URL equals that of
\* an earlier processed candidate changes no registry and not the Frontier,
\* and triggers no download and no navigation.
C2_SameKeyIsNoOp ==
    [][(last'.op \in CandidateOps /\ normalize_url(last'.url) \in processed)
       => /\ registries' = registries
          /\ relevant_links' = relevant_links
          /\ downloaded' = downloaded
          /\ navigated' = navigated]_vars

\* C3: every URL the browser navigated to and every URL that triggered a
\* download is a URL of the college domain.
C3_OutOfScopeNeverFetched ==
    \A u \in navigated \cup downloaded : is_college_url(u)

\* C4: no hash probe is issued for an out-of-scope anchor, and no out-of-scope
\* anchor is dropped because its fingerprint is already a value of seen_links.
C4_ScopeBeforeFingerprint ==
    /\ last.op = "link_probe" => is_college_url(last.url)
    /\ ~(last.op = "link_probe" /\ ~is_college_url(last.url) /\ last.fp /= None /\ last.skipped)

\* C5: in every reachable state, saving the registries and loading the saved
\* dict gives the registries back; and after the checkpoint of a run a new
\* ContentFetcher is constructed with registries equal to those in memory
\* when the checkpoint was written.
C5_CheckpointRoundTrip ==
    /\ LoadData(SaveData(seen_links, non_college_urls, urls_not_fetched, error_urls,
                         extracted_data, google_drive_urls, downloadables)) = Registries
    /\ pc = "done" => Constructed(storage_file) = Registries

\* C5 witness: a checkpoint that holds seen links, a downloaded document, an
\* extracted page and an out-of-scope URL has been written.
C5_Witness ==
    /\ pc = "done"
    /\ DOMAIN seen_links /= {}
    /\ DOMAIN extracted_data /= {}
    /\ downloadables.pdf /= <<>>
    /\ non_college_urls /= {}

\* C6: when __fetch_content raises on a frontier page, the page's URL is put
\* into error_urls, the for loop moves to the next entry of the snapshot, and
\* the snapshot is left as it was.
C6_FailureDoesNotAbortWave ==
    [][last'.op \in {"fetch_raises", "link_raises"}
       => /\ last'.url = EntryUrl
          /\ EntryUrl \in error_urls'
          /\ pc' = "wave"
          /\ idx' = idx + 1
          /\ snapshot' = snapshot]_vars

\* C6 witness: a page fetch has raised while an entry of the same snapshot
\* was still to be processed.
C6_Witness ==
    /\ last.op = "fetch_raises"
    /\ last.url \in error_urls
    /\ pc = "wave"
    /\ idx <= Len(snapshot)

\* C7: the seed is skipped exactly when its normalized URL is a key of
\* seen_links, or its fingerprint is non-empty and a value of seen_links.
C7_SeedDuplicateIffContract ==
    [][last'.op = "seed"
       => (last'.skipped <=> IsDuplicate(normalize_url(last'.url), last'.fp, seen_links))]_vars

C9_FailedUrlNotSeenAtCheckpoint ==
    pc = "done" => \A u \in failed : ~HasKey(seen_links, normalize_url(u))

\* C10: every URL of error_urls has its normalized URL as a key of seen_links
\* and no record in extracted_data, in the run that failed and in later runs.
C10_ErroredPageSeenButNotExtracted ==
    \A u \in error_urls :
        /\ HasKey(seen_links, normalize_url(u))
        /\ ~HasKey(extracted_data, normalize_url(u))

\* C10 witness: a later run has skipped, as a duplicate seed, a URL whose
\* extraction raised in an earlier run.
C10_Witness ==
    /\ runs > 1
    /\ last.op = "seed"
    /\ last.skipped
    /\ last.url \in error_urls
    /\ ~HasKey(extracted_data, LastKey)

\* The classification of a frontier URL, first match first: out of scope,
\* media asset, downloadable document, cloud-hosted document, page.
PathExt(u) == Lower(u.ext)

Classify(u) ==
    IF ~is_college_url(u) THEN "OutOfScope"
    ELSE IF PathExt(u) \in MediaExts THEN "MediaAsset"
    ELSE IF PathExt(u) \in DocExts THEN "Downloadable"
    ELSE IF is_google_drive_url(u) THEN "CloudHosted"
    ELSE "Page"

\* The steps that dispatch one entry of the snapshot, and the classification
\* each one acts on.
DispatchOps == {"non_college", "pdf", "google_drive", "unfetchable", "fetch_raises", "fetch_page"}

Dispatched(op) ==
    CASE op = "non_college" -> "OutOfScope"
      [] op = "pdf" -> "Downloadable"
      [] op = "google_drive" -> "CloudHosted"
      [] OTHER -> "Page"

\* The filenames of all four lists of the DownloadableRegistry.
AllNames(dls) == Names(dls.pdf) \cup Names(dls.docx) \cup Names(dls.xlsx) \cup Names(dls.zip)

\* C11: every entry of the snapshot is dispatched as its classification says;
\* an entry whose path extension is a document format is downloaded, not
\* fetched as a page.
C11_DispatchFollowsPriority ==
    [][last'.op \in DispatchOps => Dispatched(last'.op) = Classify(last'.url)]_vars

\* C12: no URL whose path extension is an image or video type is in the
\* Frontier, was navigated to, or triggered a download.
C12_MediaNeverProcessed ==
    /\ \A i \in DOMAIN relevant_links : PathExt(relevant_links[i].url) \notin MediaExts
    /\ \A u \in navigated \cup downloaded : PathExt(u) \notin MediaExts

\* C13 as stated: a direct download (inline or in the wave) is skipped exactly
\* when the derived filename is in the list of the document's own format.
C13_SkipOnOwnFormatOnly ==
    [][/\ last'.op = "link_downloadable"
          => (last'.skipped <=>
                get_name_from_url(last'.url) \in Names(downloadables[last'.url.ext]))
       /\ last'.op = "pdf"
          => (last'.skipped <=> get_name_from_url(last'.url) \in Names(downloadables.pdf))]_vars

\* C13 as amended: an inline download is skipped exactly when the derived
\* filename is in the list of any format, a pdf download of the wave exactly
\* when it is in the pdf list; a skipped download changes nothing, a download
\* that is not skipped is performed and, on success, <<filename, url>> is
\* appended to the list of the document's format.
C13_SkipOnAnyFormat ==
    [][/\ last'.op = "link_downloadable"
          => (last'.skipped <=> get_name_from_url(last'.url) \in AllNames(downloadables))
       /\ last'.op = "pdf"
          => (last'.skipped <=> get_name_from_url(last'.url) \in Names(downloadables.pdf))
       /\ (last'.op \in {"link_downloadable", "pdf"} /\ last'.skipped)
          => (downloaded' = downloaded /\ downloadables' = downloadables)
       /\ (last'.op \in {"link_downloadable", "pdf"} /\ ~last'.skipped)
          => /\ last'.url \in downloaded'
             /\ downloadables' =
                    IF failures' = failures
                    THEN [downloadables EXCEPT ![PathExt(last'.url)] =
                              Append(@, <<get_name_from_url(last'.url), last'.url>>)]
                    ELSE downloadables]_vars

\* C13 witness: an inline download of a .docx has been skipped although its
\* filename is in no list but the pdf list.
C13_Witness ==
    /\ last.op = "link_downloadable"
    /\ last.skipped
    /\ last.url.ext = "docx"
    /\ get_name_from_url(last.url) \notin Names(downloadables.docx)
    /\ get_name_from_url(last.url) \in Names(downloadables.pdf)

\* C14: an anchor to a document URL with a fragment, whose derived filename
\* is already registered, changes neither the Frontier nor seen_links and
\* triggers no download.
C14_FragmentDocumentSkipped ==
    [][(/\ last'.op \in CandidateOps \ {"seed"}
        /\ last'.url.frag /= ""
        /\ PathExt(last'.url) \in DocExts
        /\ get_name_from_url(last'.url) \in AllNames(downloadables))
       => /\ relevant_links' = relevant_links
          /\ seen_links' = seen_links
          /\ downloaded' = downloaded]_vars

\* C15: a failed document download puts the source URL into error_urls,
\* leaves downloadables and extracted_data as they were, and the crawl goes on.
C15_FailedDownloadRecorded ==
    [][(last'.op \in {"pdf", "google_drive", "link_downloadable"} /\ failures' > failures)
       => /\ last'.url \in error_urls'
          /\ downloadables' = downloadables
          /\ extracted_data' = extracted_data
          /\ pc' = pc]_vars

\* C16: no step, the construction of a later ContentFetcher included, removes
\* a key of seen_links or changes the fingerprint stored for it.
C16_SeenAppendOnly ==
    [][\A k \in DOMAIN seen_links : HasKey(seen_links', k) /\ seen_links'[k] = seen_links[k]]_vars

\* C16 witness: a later run has reloaded a checkpoint that held keys and has
\* recorded a new anchor next to them.
C16_Witness ==
    /\ runs > 1
    /\ last.op = "link_probe"
    /\ ~last.skipped
    /\ storage_file.exists
    /\ DOMAIN storage_file.data.seen_links /= {}
    /\ DOMAIN storage_file.data.seen_links \subseteq DOMAIN seen_links
    /\ LastKey \notin DOMAIN storage_file.data.seen_links

\* C17 as stated: no key of the Frontier is a key of seen_links.
C17_FrontierDisjointFromSeen ==
    \A k \in Keys(relevant_links) : ~HasKey(seen_links, k)

\* C17 as amended: a key enters the Frontier only in a step before which it
\* was not a key of seen_links, and that step records it in seen_links.
C17_FrontierKeyNewWhenInserted ==
    [][\A k \in Keys(relevant_links') \ Keys(relevant_links) :
           ~HasKey(seen_links, k) /\ HasKey(seen_links', k)]_vars

\* C17 witness: an anchor has just been put into the Frontier.
C17_Witness ==
    /\ last.op = "link_probe"
    /\ ~last.skipped
    /\ LastKey \in Keys(relevant_links)

\* C18: every key of the Frontier and of the snapshot is a key of seen_links.
C18_FrontierKeysAreSeen ==
    Keys(relevant_links) \cup Keys(snapshot) \subseteq DOMAIN seen_links

\* C18 witness: a wave is processing the anchors of a page while the next
\* Frontier already holds a key.
C18_Witness ==
    /\ pc = "links"
    /\ snapshot /= <<>>
    /\ relevant_links /= <<>>

\* C19: after every step, the construction of a later ContentFetcher
\* included, the three classification sets are pairwise disjoint and each
\* holds what it held before.
C19_ClassificationSetsDisjoint ==
    [][/\ non_college_urls' \cap urls_not_fetched' = {}
       /\ non_college_urls' \cap error_urls' = {}
       /\ urls_not_fetched' \cap error_urls' = {}
       /\ non_college_urls \subseteq non_college_urls'
       /\ urls_not_fetched \subseteq urls_not_fetched'
       /\ error_urls \subseteq error_urls']_vars

\* C19 witness: a later run works on a reloaded checkpoint and all three sets
\* hold a URL.
C19_Witness ==
    /\ runs > 1
    /\ non_college_urls /= {}
    /\ urls_not_fetched /= {}
    /\ error_urls /= {}

\* C20: no step removes or changes a record of extracted_data, and a step
\* that stores a record stores it under a key that had none.
C20_RecordCreatedOnce ==
    [][/\ \A k \in DOMAIN extracted_data :
              HasKey(extracted_data', k) /\ extracted_data'[k] = extracted_data[k]
       /\ (\/ last'.op = "page_stored"
           \/ (last'.op \in {"pdf", "google_drive"} /\ ~last'.skipped /\ failures' = failures))
          => ~HasKey(extracted_data, normalize_url(last'.url))]_vars

\* C20 witness: a later run has stored a page next to the records of a
\* reloaded checkpoint.
C20_Witness ==
    /\ runs > 1
    /\ last.op = "page_stored"
    /\ storage_file.exists
    /\ DOMAIN storage_file.data.extracted_data /= {}
    /\ LastKey \notin DOMAIN storage_file.data.extracted_data

\* C21: the storage file is written only by the flush that follows an empty
\* Frontier, which stores the registries as they are; the browser session
\* ends only after that flush; a run that returns on a duplicate seed leaves
\* the storage file alone.
C21_CheckpointOnlyWhenDrained ==
    [][/\ last'.op /= "save" => storage_file' = storage_file
       /\ last'.op = "save"
          => /\ pc = "loop" /\ relevant_links = <<>>
             /\ Registries' = Registries
             /\ Constructed(storage_file') = Registries
             /\ driver.alive /\ driver'.alive
       /\ (driver.alive /\ ~driver'.alive)
          => /\ last.op = "save" /\ last'.op = "quit"
             /\ Constructed(storage_file) = Registries
       /\ (last'.op = "seed" /\ last'.skipped)
          => pc' = "returned" /\ driver'.alive]_vars

\* C21 witness: a run over several keys has flushed and then released the
\* browser session.
C21_Witness ==
    /\ last.op = "quit"
    /\ ~driver.alive
    /\ storage_file.exists
    /\ Cardinality(DOMAIN storage_file.data.seen_links) >= 2

\* C22: a ContentFetcher constructed after an interruption starts, and its
\* registries are those of the last completed flush.
C22_RestartLoadsLastFlush ==
    [][last'.op = "restart" => (pc' = "idle" /\ Registries' = Constructed(flushed))]_vars

\* C26: a wave starts by copying the Frontier into the snapshot and clearing
\* it; the snapshot then stays as it is, its entries are dispatched one by one
\* in order and all of them before the wave ends; what is put into the
\* Frontier during the wave is no entry of the snapshot.
C26_WaveDiscipline ==
    [][/\ last'.op = "wave_start"
          => /\ relevant_links /= <<>>
             /\ snapshot' = relevant_links
             /\ relevant_links' = <<>>
             /\ idx' = 1
       /\ last'.op \notin {"wave_start", "new_run"}
          => snapshot' = snapshot /\ idx' \in {idx, idx + 1}
       /\ last'.op \in DispatchOps
          => idx \in DOMAIN snapshot /\ last'.url = snapshot[idx].url
       /\ last'.op = "wave_end" => idx = Len(snapshot) + 1
       /\ pc' \in {"wave", "links"} => Keys(relevant_links') \cap Keys(snapshot') = {}]_vars

\* C26 witness: a later wave has started on links that an earlier wave
\* discovered.
C26_Witness ==
    /\ last.op = "wave_start"
    /\ dispatched /= {}
    /\ Len(snapshot) >= 2
    /\ relevant_links = <<>>

\* C27: the step that processes a candidate issues at most one hash request,
\* and the fingerprint it records for a new key is the one it tested.
C27_OneHashRequestPerCandidate ==
    [][last'.op \in CandidateOps
       => /\ last'.probes <= 1
          /\ (HasKey(seen_links', normalize_url(last'.url))
              /\ ~HasKey(seen_links, normalize_url(last'.url)))
             => seen_links'[normalize_url(last'.url)] = last'.fp]_vars

\* C28: a snapshot entry is dispatched only if its key was never dispatched
\* before, in this run or an earlier one; a step whose URL is already in
\* urls_not_fetched issues no hash request, no navigation and no download and
\* leaves the Frontier as it was.
C28_DispatchedAtMostOnce ==
    [][/\ last'.op \in DispatchOps => normalize_url(last'.url) \notin dispatched
       /\ last'.url \in urls_not_fetched
          => /\ last'.probes = 0
             /\ navigated' = navigated
             /\ downloaded' = downloaded
             /\ relevant_links' = relevant_links]_vars

\* C28 witness: a later run is handed, as its seed, a URL that an earlier run
\* recorded as unfetchable, and skips it.
C28_Witness ==
    /\ runs > 1
    /\ last.op = "seed"
    /\ last.url \in urls_not_fetched
    /\ last.skipped
    /\ LastKey \in dispatched

\* C29: no two distinct keys of seen_links hold the same non-empty fingerprint.
C29_FingerprintsUnique ==
    \A k1 \in DOMAIN seen_links : \A k2 \in DOMAIN seen_links :
        (k1 /= k2 /\ seen_links[k1] /= None) => seen_links[k1] /= seen_links[k2]

\* C30: a run that has entered the wave loop eventually finds the Frontier
\* empty, writes the checkpoint and releases the browser session.
C30_RunTerminates ==
    (pc \in {"loop", "wave", "links", "saved"})
        ~> (pc = "done" /\ relevant_links = <<>> /\ storage_file = Pickled /\ ~driver.alive)

\* C30 witness: a run of several waves has ended with the checkpoint written
\* and the browser session released.
C30_Witness ==
    /\ pc = "done"
    /\ ~driver.alive
    /\ storage_file = Pickled
    /\ Cardinality(dispatched) >= 4
    /\ runs = 1

\* The parameters the spec calls tracking parameters.
TrackingParams == {"utm_source", "utm_medium", "utm_campaign"}

\* How often a parameter occurs in a query string.
Occurrences(p, q) == Cardinality({i \in DOMAIN q : q[i] = p})

\* Two raw URLs differ at most in: http or https, the letter case of scheme
\* and host, the trailing slash, the fragment, the order of the query
\* parameters, the tracking parameters.
SchemeClass(t) == IF t \in {"http", "https", "HTTP", "HTTPS"} THEN "web" ELSE t

HostClass(h) == IF h \in {College, "NITJ.AC.IN"} THEN College ELSE h

SamePage(u, v) ==
    /\ SchemeClass(u.scheme) = SchemeClass(v.scheme)
    /\ HostClass(u.host) = HostClass(v.host)
    /\ u.path = v.path
    /\ u.ext = v.ext
    /\ \A p \in {u.query[j] : j \in DOMAIN u.query} \cup {v.query[j] : j \in DOMAIN v.query} :
           p[1] \notin TrackingParams => Occurrences(p, u.query) = Occurrences(p, v.query)

\* C23: normalize_url returns the same key for two URLs that differ only in
\* scheme (http or https), case of scheme or host, trailing slash, fragment,
\* order of query parameters and tracking parameters.
C23_SamePageSameKey ==
    (norm_out.done /\ SamePage(norm_in[1], norm_in[2])) => norm_out.keys[1] = norm_out.keys[2]

\* C23 witness: the two URLs differ in all the ways named and got one key.
C23_Witness ==
    /\ norm_out.done
    /\ norm_in[1] = Url("http", College, "a", "", FALSE, << <<"a", "1">>, <<"b", "2">> >>, "")
    /\ norm_in[2] =
           Url("HTTPS", "NITJ.AC.IN", "a", "", TRUE,
               << <<"utm_campaign", "x">>, <<"b", "2">>, <<"a", "1">> >>, "section2")
    /\ norm_out.keys[1] = norm_out.keys[2]

\* C24: a VectorDatabaseModule holds no vector and no metadata entry when it
\* has been constructed, and each create_and_store_embedding call of an object
\* that has loaded no file returns a non-empty ID and leaves the index holding
\* as many vectors as the object has made calls.
C24_NewInstanceIsEmpty ==
    [][/\ vlast'.op = "construct"
          => /\ Len(instances'[vlast'.obj].index) = 0
             /\ DOMAIN instances'[vlast'.obj].metadata = {}
       /\ (vlast'.op = "create" /\ vlast'.obj \notin loaded)
          => /\ Len(instances'[vlast'.obj].index) = Len(returned_ids'[vlast'.obj])
             /\ returned_ids'[vlast'.obj][Len(returned_ids'[vlast'.obj])] /= ""]_vars

\* The object that loads a file was constructed after the file was written
\* and has neither stored nor loaded anything itself; the object that wrote the
\* file had made a call, has made none since and has never loaded anything.
LoadsSavedFile(i, f) ==
    /\ i > disk[f].objs
    /\ i \notin loaded
    /\ disk[f].by \notin loaded
    /\ returned_ids[i] = <<>>
    /\ disk[f].calls >= 1
    /\ Len(returned_ids[disk[f].by]) = disk[f].calls

\* The object holds as many vectors as the file's writer had stored, the
\* metadata entries 0, 1, ... hold the IDs the writer's calls returned, in
\* order, and there are as many entries as vectors.
HoldsWhatWasSaved(obj, f) ==
    /\ Len(obj.index) = disk[f].calls
    /\ \A n \in 0..(disk[f].calls - 1) :
           /\ n \in DOMAIN obj.metadata
           /\ obj.metadata[n].embeddingID = returned_ids[disk[f].by][n + 1]
    /\ Cardinality(DOMAIN obj.metadata) = Len(obj.index)

\* C25: a newly constructed object that loads the index file or the metadata
\* file another object saved after its create_and_store_embedding calls holds
\* as many vectors as that object stored and, at position n, the ID its n-th
\* call returned.
C25_MappingSurvivesPersistence ==
    [][(vlast'.op \in {"load_index", "load_metadata"}
        /\ LoadsSavedFile(vlast'.obj, vlast'.file))
       => HoldsWhatWasSaved(instances'[vlast'.obj], vlast'.file)]_vars

====
